---- MODULE Spec2Model ----
(***************************************************************************)
(* Model of taichi/analysis/value_diff.cpp: the DiffRange interval         *)
(* arithmetic, the loop-relative visitor ValueDiffLoopIndex, the           *)
(* base+offset visitor FindDirectValueBaseAndOffset and the two entry      *)
(* points value_diff_loop_index and value_diff_ptr_index.                  *)
(*                                                                         *)
(* The IR is an arena: a sequence of statements, a statement's position    *)
(* being its identity (Stmt* / instance_id); operands refer to earlier     *)
(* positions.  The IR is read-only during the pass.                        *)
(***************************************************************************)
EXTENDS Integers, Sequences, FiniteSets, TLC

VARIABLES ir, call, ret, results, visited

vars == <<ir, call, ret, results, visited>>

(***************************************************************************)
(* C++ int: 32-bit two's complement.  Signed overflow is undefined         *)
(* behaviour; the builds of this code either wrap (the default) or trap    *)
(* (-ftrapv, sanitizers).  The arithmetic below computes the wrapped       *)
(* value and, separately, whether the operation overflowed; the entry      *)
(* points choose between the two outcomes when it did.                     *)
(***************************************************************************)
INT_MAX == 2147483647

INT_MIN == (-INT_MAX) - 1

AddOverflows(a, b) ==
    \/ (b > 0 /\ a > INT_MAX - b)
    \/ (b < 0 /\ a < INT_MIN - b)

Add32(a, b) ==
    IF b > 0 /\ a > INT_MAX - b THEN (a + INT_MIN) + (b + INT_MIN)
    ELSE IF b < 0 /\ a < INT_MIN - b THEN (a - INT_MIN) + (b - INT_MIN)
    ELSE a + b

SubOverflows(a, b) ==
    \/ (b < 0 /\ a > INT_MAX + b)
    \/ (b > 0 /\ a < INT_MIN + b)

Sub32(a, b) ==
    IF b < 0 /\ a > INT_MAX + b THEN (a + INT_MIN) - (b - INT_MIN)
    ELSE IF b > 0 /\ a < INT_MIN + b THEN (a - INT_MIN) - (b + INT_MIN)
    ELSE a - b

(***************************************************************************)
(* DiffRange (declared in taichi/ir/ir.h): related, coeff, low, high.      *)
(* An unrelated fact has low = high = 0; the three-argument constructor    *)
(* builds the half-open singleton [low, low + 1).                          *)
(***************************************************************************)
DiffRange4(related, coeff, low, high) ==
    [related |-> related, coeff |-> coeff,
     low  |-> IF related THEN low ELSE 0,
     high |-> IF related THEN high ELSE 0]

DiffRange3(related, coeff, low) == DiffRange4(related, coeff, low, Add32(low, 1))

DiffRange3Overflows(low) == AddOverflows(low, 1)

DiffRange2(related, coeff) == DiffRange4(related, 0, 0, 0)

DiffRange0 == DiffRange2(FALSE, 0)

\* operator+ with the coefficient of the right operand dropped.
DiffPlus_KeepCoeff(a, b) ==
    DiffRange4(a.related /\ b.related, a.coeff,
               Add32(a.low, b.low), Sub32(Add32(a.high, b.high), 1))

\* operator+(const DiffRange &a, const DiffRange &b)
DiffPlus(a, b) ==
    DiffRange4(a.related /\ b.related, Add32(a.coeff, b.coeff),
               Add32(a.low, b.low), Sub32(Add32(a.high, b.high), 1))

PlusOverflows(a, b) ==
    \/ AddOverflows(a.coeff, b.coeff)
    \/ AddOverflows(a.low, b.low)
    \/ AddOverflows(a.high, b.high)
    \/ SubOverflows(Add32(a.high, b.high), 1)

\* operator- without the half-open correction of the lower bound.
DiffMinus_NoCorrection(a, b) ==
    DiffRange4(a.related /\ b.related, Sub32(a.coeff, b.coeff),
               Sub32(a.low, b.high), Sub32(a.high, b.low))

\* operator-(const DiffRange &a, const DiffRange &b)
DiffMinus(a, b) ==
    DiffRange4(a.related /\ b.related, Sub32(a.coeff, b.coeff),
               Add32(Sub32(a.low, b.high), 1), Sub32(a.high, b.low))

MinusOverflows(a, b) ==
    \/ SubOverflows(a.coeff, b.coeff)
    \/ SubOverflows(a.low, b.high)
    \/ AddOverflows(Sub32(a.low, b.high), 1)
    \/ SubOverflows(a.high, b.low)

(***************************************************************************)
(* The IR.  A statement is a record with its kind, its width (number of    *)
(* lanes) and the fields value_diff.cpp reads.  Lanes are numbered from 0  *)
(* as in the source; val[lane] is element lane + 1 of the sequence.        *)
(***************************************************************************)
TypedConstant(dt, v) == [dt |-> dt, val_i32 |-> v]

ConstStmt(vals) == [kind |-> "ConstStmt", width |-> Len(vals), val |-> vals]

LoopIndexStmt(loop, index) ==
    [kind |-> "LoopIndexStmt", width |-> 1, loop |-> loop, index |-> index]

GlobalLoadStmt == [kind |-> "GlobalLoadStmt", width |-> 1]

\* Any statement kind without a visit overload of its own.
ArgLoadStmt == [kind |-> "ArgLoadStmt", width |-> 1]

BinaryOpStmt(op, lhs, rhs, w) ==
    [kind |-> "BinaryOpStmt", width |-> w, op_type |-> op, lhs |-> lhs, rhs |-> rhs]

\* Asserts base + low <= input < base + high for its input, whose value it
\* has; the pass reads base, low and high only.
RangeAssumptionStmt(base, low, high) ==
    [kind |-> "RangeAssumptionStmt", width |-> 1, base |-> base,
     low |-> low, high |-> high]

ElementShuffleStmt(elements) ==
    [kind |-> "ElementShuffleStmt", width |-> Len(elements), elements |-> elements]

\* Loops.  id is the loop's identity (Stmt*).
StructForStmt == [id |-> "S", kind |-> "StructForStmt"]

OffloadedStmt(task_type) == [id |-> "O", kind |-> "OffloadedStmt", task_type |-> task_type]

RangeForStmt(begin, end) == [id |-> "R", kind |-> "RangeForStmt", begin |-> begin, end |-> end]

(***************************************************************************)
(* Bounds of the checked inputs.                                           *)
(***************************************************************************)
MaxNodes == 3

MaxChain == 2

MaxBound == 2

I32(v) == ConstStmt(<<TypedConstant("i32", v)>>)

ConstVals == {1, INT_MAX - 1}

ChainVals == {1, 3}

BoundVals == {0, MaxBound}

\* Range-for loops: constant bounds (empty and reversed ranges included), and
\* one whose end is not a compile-time constant.
RangeFors ==
    {RangeForStmt(I32(b), I32(e)) : b \in BoundVals, e \in BoundVals}
    \cup {RangeForStmt(I32(0), GlobalLoadStmt)}

LeafStmts ==
    {I32(v) : v \in ConstVals}
    \cup {ConstStmt(<<TypedConstant("f32", 0)>>),
          ConstStmt(<<TypedConstant("i32", 1), TypedConstant("i32", 3)>>),
          LoopIndexStmt(StructForStmt, 0), LoopIndexStmt(StructForStmt, 1),
          LoopIndexStmt(OffloadedStmt("struct_for"), 0),
          GlobalLoadStmt, ArgLoadStmt}
    \cup {LoopIndexStmt(r, 0) : r \in RangeFors}

AssumedRanges == {<<0, MaxBound>>, <<1, 1>>}

Ids(a) == 1..Len(a)

\* The statements that may follow the statements of a: a leaf, or an operation
\* on earlier statements, of matching widths.
NextStmts(a) ==
    LeafStmts
    \cup {BinaryOpStmt(op, p[1], p[2], a[p[1]].width) :
            op \in {"add", "sub", "mul"},
            p \in {q \in Ids(a) \X Ids(a) : a[q[1]].width = a[q[2]].width}}
    \cup {RangeAssumptionStmt(b, rg[1], rg[2]) :
            b \in {x \in Ids(a) : a[x].width = 1}, rg \in AssumedRanges}
    \cup {ElementShuffleStmt(<<[stmt |-> p[1], index |-> p[2]]>>) :
            p \in {q \in Ids(a) \X {0, 1} : q[2] < a[q[1]].width}}
    \cup {ElementShuffleStmt(<<[stmt |-> s, index |-> 1], [stmt |-> s, index |-> 0]>>) :
            s \in {x \in Ids(a) : a[x].width = 2}}

\* a is a leaf followed by k address computations "earlier statement op
\* constant", each a constant and the operation on it.
IsChain(a) ==
    /\ Len(a) % 2 = 1
    /\ a[1].width = 1
    /\ \A k \in 1..(Len(a) \div 2) :
          /\ a[2 * k].kind = "ConstStmt" /\ a[2 * k].width = 1
          /\ a[2 * k].val[1].dt = "i32"
          /\ a[2 * k + 1].kind = "BinaryOpStmt"
          /\ a[2 * k + 1].lhs < 2 * k /\ a[2 * k + 1].rhs = 2 * k

PtrVals == {4, 12, INT_MIN}

PtrLeafStmts ==
    {I32(v) : v \in PtrVals}
    \cup {ConstStmt(<<TypedConstant("f32", 0)>>),
          ConstStmt(<<TypedConstant("i32", 4), TypedConstant("i32", 12)>>),
          GlobalLoadStmt}

PtrNextStmts(a) ==
    PtrLeafStmts
    \cup {BinaryOpStmt(op, p[1], p[2], a[p[1]].width) :
            op \in {"add", "sub", "mul"},
            p \in {q \in Ids(a) \X Ids(a) : a[q[1]].width = a[q[2]].width}}

LoopArgs == {StructForStmt, OffloadedStmt("struct_for"), OffloadedStmt("range_for"),
             RangeForStmt(I32(0), I32(MaxBound))}

(***************************************************************************)
(* ValueDiffLoopIndex.  The visitor's fields are the record st: loop,      *)
(* loop_index, lane and results as in the class, plus what the run leaves  *)
(* behind: visited (the statements whose visit ran, in order), ub (a       *)
(* signed overflow happened) and aborted (a TI_ASSERT failed).             *)
(***************************************************************************)
ValueDiffLoopIndex(lane, loop, loop_index) ==
    [lane |-> lane, loop |-> loop, loop_index |-> loop_index,
     results |-> <<>>, visited |-> <<>>, ub |-> FALSE, aborted |-> FALSE]

\* results[id] = fact, on entry to the visit of id
Store(st, id, fact) == [st EXCEPT !.results = (id :> fact) @@ st.results]

Enter(st, id) == [st EXCEPT !.visited = Append(st.visited, id)]

\* visit(Stmt *) and visit(GlobalLoadStmt *)
visit_Stmt(id, st) == Store(Enter(st, id), id, DiffRange0)

visit_GlobalLoadStmt(id, st) == Store(Enter(st, id), id, DiffRange0)

visit_LoopIndexStmt(id, st) ==
    LET stmt == ir[id]
        s0 == Enter(st, id)
    IN IF stmt.loop = st.loop /\ stmt.index = st.loop_index
       THEN Store(s0, id, DiffRange3(TRUE, 1, 0))
       ELSE IF stmt.loop.kind = "RangeForStmt"
               /\ stmt.loop.begin.kind = "ConstStmt" /\ stmt.loop.end.kind = "ConstStmt"
       THEN Store(s0, id, DiffRange4(TRUE, 0, stmt.loop.begin.val[1].val_i32,
                                     stmt.loop.end.val[1].val_i32))
       ELSE Store(s0, id, DiffRange0)

visit_ConstStmt(id, st) ==
    LET stmt == ir[id]
        s0 == Enter(st, id)
        c == stmt.val[st.lane + 1]
    IN IF c.dt = "i32"
       THEN [Store(s0, id, DiffRange3(TRUE, 0, c.val_i32))
                EXCEPT !.ub = s0.ub \/ DiffRange3Overflows(c.val_i32)]
       ELSE Store(s0, id, DiffRange0)

RECURSIVE accept(_, _)

visit_ElementShuffleStmt(id, st) ==
    LET stmt == ir[id]
        s0 == Enter(st, id)
        old_lane == st.lane
    IN IF stmt.width # 1 THEN [s0 EXCEPT !.aborted = TRUE]
       ELSE LET src == stmt.elements[st.lane + 1].stmt
                s1 == accept(src, [s0 EXCEPT !.lane = stmt.elements[st.lane + 1].index])
            IN IF s1.aborted THEN s1
               ELSE [Store(s1, id, s1.results[src]) EXCEPT !.lane = old_lane]

visit_RangeAssumptionStmt(id, st) ==
    LET stmt == ir[id]
        s1 == accept(stmt.base, Enter(st, id))
    IN IF s1.aborted THEN s1
       ELSE LET b == s1.results[stmt.base]
                r == DiffRange4(TRUE, 0, stmt.low, stmt.high)
            IN [Store(s1, id, DiffPlus(b, r)) EXCEPT !.ub = s1.ub \/ PlusOverflows(b, r)]

\* visit(BinaryOpStmt *) passing on the fact of the one related operand.
visit_BinaryOpStmt_Partial(id, st) ==
    LET stmt == ir[id]
        s0 == Enter(st, id)
    IN IF stmt.op_type \in {"add", "sub"}
       THEN LET s1 == accept(stmt.lhs, s0)
                s2 == IF s1.aborted THEN s1 ELSE accept(stmt.rhs, s1)
            IN IF s2.aborted THEN s2
               ELSE LET ret1 == s2.results[stmt.lhs]
                        ret2 == s2.results[stmt.rhs]
                    IN IF ret1.related /\ ret2.related
                       THEN IF stmt.op_type = "add"
                            THEN [Store(s2, id, DiffPlus(ret1, ret2))
                                     EXCEPT !.ub = s2.ub \/ PlusOverflows(ret1, ret2)]
                            ELSE [Store(s2, id, DiffMinus(ret1, ret2))
                                     EXCEPT !.ub = s2.ub \/ MinusOverflows(ret1, ret2)]
                       ELSE IF ret1.related THEN Store(s2, id, ret1)
                       ELSE IF ret2.related THEN Store(s2, id, ret2)
                       ELSE Store(s2, id, DiffRange2(FALSE, 0))
       ELSE Store(s0, id, DiffRange2(FALSE, 0))

\* visit(BinaryOpStmt *) skipping an operand whose fact is already in results.
visit_BinaryOpStmt_Memo(id, st) ==
    LET stmt == ir[id]
        s0 == Enter(st, id)
    IN IF stmt.op_type \in {"add", "sub"}
       THEN LET s1 == IF stmt.lhs \in DOMAIN s0.results THEN s0 ELSE accept(stmt.lhs, s0)
                s2 == IF s1.aborted \/ stmt.rhs \in DOMAIN s1.results THEN s1
                      ELSE accept(stmt.rhs, s1)
            IN IF s2.aborted THEN s2
               ELSE LET ret1 == s2.results[stmt.lhs]
                        ret2 == s2.results[stmt.rhs]
                    IN IF ret1.related /\ ret2.related
                       THEN IF stmt.op_type = "add"
                            THEN [Store(s2, id, DiffPlus(ret1, ret2))
                                     EXCEPT !.ub = s2.ub \/ PlusOverflows(ret1, ret2)]
                            ELSE [Store(s2, id, DiffMinus(ret1, ret2))
                                     EXCEPT !.ub = s2.ub \/ MinusOverflows(ret1, ret2)]
                       ELSE Store(s2, id, DiffRange2(FALSE, 0))
       ELSE Store(s0, id, DiffRange2(FALSE, 0))

visit_BinaryOpStmt(id, st) ==
    LET stmt == ir[id]
        s0 == Enter(st, id)
    IN IF stmt.op_type \in {"add", "sub"}
       THEN LET s1 == accept(stmt.lhs, s0)
                s2 == IF s1.aborted THEN s1 ELSE accept(stmt.rhs, s1)
            IN IF s2.aborted THEN s2
               ELSE LET ret1 == s2.results[stmt.lhs]
                        ret2 == s2.results[stmt.rhs]
                    IN IF ret1.related /\ ret2.related
                       THEN IF stmt.op_type = "add"
                            THEN [Store(s2, id, DiffPlus(ret1, ret2))
                                     EXCEPT !.ub = s2.ub \/ PlusOverflows(ret1, ret2)]
                            ELSE [Store(s2, id, DiffMinus(ret1, ret2))
                                     EXCEPT !.ub = s2.ub \/ MinusOverflows(ret1, ret2)]
                       ELSE Store(s2, id, DiffRange2(FALSE, 0))
       ELSE Store(s0, id, DiffRange2(FALSE, 0))

\* Stmt::accept: dispatch on the statement's class, the default being visit(Stmt *).
accept(id, st) ==
    CASE ir[id].kind = "GlobalLoadStmt"      -> visit_GlobalLoadStmt(id, st)
      [] ir[id].kind = "LoopIndexStmt"       -> visit_LoopIndexStmt(id, st)
      [] ir[id].kind = "ElementShuffleStmt"  -> visit_ElementShuffleStmt(id, st)
      [] ir[id].kind = "ConstStmt"           -> visit_ConstStmt(id, st)
      [] ir[id].kind = "RangeAssumptionStmt" -> visit_RangeAssumptionStmt(id, st)
      [] ir[id].kind = "BinaryOpStmt"        -> visit_BinaryOpStmt(id, st)
      [] OTHER                               -> visit_Stmt(id, st)

\* ValueDiffLoopIndex::run
run(input_stmt, st) == accept(input_stmt, st)

(***************************************************************************)
(* FindDirectValueBaseAndOffset.  result is <found, base, offset>; a null  *)
(* base is 0.                                                              *)
(***************************************************************************)
nullptr == 0

make_tuple(found, base, offset) == [found |-> found, base |-> base, offset |-> offset]

FindDirectValueBaseAndOffset ==
    [result |-> make_tuple(FALSE, nullptr, 0), ub |-> FALSE, aborted |-> FALSE]

\* visit(Stmt *) taking the statement itself as a base with offset 0.
Find_visit_Stmt_SelfBase(id, fs) == [fs EXCEPT !.result = make_tuple(TRUE, id, 0)]

Find_visit_Stmt(id, fs) == [fs EXCEPT !.result = make_tuple(FALSE, nullptr, 0)]

\* visit(ConstStmt *) without the test for the i32 type.
Find_visit_ConstStmt_AnyType(id, fs) ==
    LET stmt == ir[id] IN
    IF stmt.width # 1 THEN [fs EXCEPT !.aborted = TRUE]
    ELSE [fs EXCEPT !.result = make_tuple(TRUE, nullptr, stmt.val[1].val_i32)]

Find_visit_ConstStmt(id, fs) ==
    LET stmt == ir[id] IN
    IF stmt.width # 1 THEN [fs EXCEPT !.aborted = TRUE]
    ELSE IF stmt.val[1].dt = "i32"
    THEN [fs EXCEPT !.result = make_tuple(TRUE, nullptr, stmt.val[1].val_i32)]
    ELSE fs

\* visit(BinaryOpStmt *) without the negation of the offset of a sub.
Find_visit_BinaryOpStmt_NoNegate(id, fs) ==
    LET stmt == ir[id]
        s1 == IF ir[stmt.rhs].kind = "ConstStmt" THEN Find_visit_ConstStmt(stmt.rhs, fs)
              ELSE fs
    IN IF s1.aborted THEN s1
       ELSE IF \/ ~s1.result.found
               \/ s1.result.base # nullptr
               \/ (stmt.op_type # "add" /\ stmt.op_type # "sub")
       THEN [s1 EXCEPT !.result = make_tuple(FALSE, nullptr, 0)]
       ELSE [s1 EXCEPT !.result = make_tuple(TRUE, stmt.lhs, s1.result.offset)]

Find_visit_BinaryOpStmt(id, fs) ==
    LET stmt == ir[id]
        s1 == IF ir[stmt.rhs].kind = "ConstStmt" THEN Find_visit_ConstStmt(stmt.rhs, fs)
              ELSE fs
    IN IF s1.aborted THEN s1
       ELSE IF \/ ~s1.result.found
               \/ s1.result.base # nullptr
               \/ (stmt.op_type # "add" /\ stmt.op_type # "sub")
       THEN [s1 EXCEPT !.result = make_tuple(FALSE, nullptr, 0)]
       ELSE LET off == IF stmt.op_type = "sub" THEN Sub32(0, s1.result.offset)
                       ELSE s1.result.offset
            IN [s1 EXCEPT !.result = make_tuple(TRUE, stmt.lhs, off),
                          !.ub = s1.ub \/ (stmt.op_type = "sub"
                                           /\ SubOverflows(0, s1.result.offset))]

Find_accept(id, fs) ==
    CASE ir[id].kind = "ConstStmt"    -> Find_visit_ConstStmt(id, fs)
      [] ir[id].kind = "BinaryOpStmt" -> Find_visit_BinaryOpStmt(id, fs)
      [] OTHER                        -> Find_visit_Stmt(id, fs)

\* FindDirectValueBaseAndOffset::run
Find_run(val) == Find_accept(val, FindDirectValueBaseAndOffset)

\* DiffPtrResult
make_certain(d) == [certain |-> TRUE, diff_value |-> d]

make_uncertain == [certain |-> FALSE, diff_value |-> 0]

(***************************************************************************)
(* What a call leaves: a returned value, or no value because a TI_ASSERT   *)
(* aborted the process or the build trapped on a signed overflow.          *)
(***************************************************************************)
NoCall == [fn |-> "none"]

NoRet == [status |-> "none"]

Returned(v) == [status |-> "returned", value |-> v]

Aborted == [status |-> "aborted"]

Trapped == [status |-> "trapped"]

\* The outcomes of a run in which a signed overflow may have happened.
Outcomes(ub, v) == IF ub THEN {Returned(v), Trapped} ELSE {Returned(v)}

\* The entry assertions accepting a range-for as well.
LoopEntryAsserts_RangeFor(loop) ==
    /\ loop.kind = "StructForStmt" \/ loop.kind = "OffloadedStmt" \/ loop.kind = "RangeForStmt"
    /\ loop.kind = "OffloadedStmt" => loop.task_type = "struct_for"

LoopEntryAsserts(loop) ==
    /\ loop.kind = "StructForStmt" \/ loop.kind = "OffloadedStmt"
    /\ loop.kind = "OffloadedStmt" => loop.task_type = "struct_for"

value_diff_loop_index(stmt, loop, index_id) ==
    /\ call = NoCall
    /\ call' = [fn |-> "value_diff_loop_index", stmt |-> stmt, loop |-> loop,
                index_id |-> index_id]
    /\ IF ~LoopEntryAsserts(loop)
       THEN ret' = Aborted /\ UNCHANGED <<results, visited>>
       ELSE IF ir[stmt].kind = "LoopIndexStmt" /\ ir[stmt].loop = loop
               /\ ir[stmt].index = index_id
       THEN ret' = Returned(DiffRange3(TRUE, 1, 0)) /\ UNCHANGED <<results, visited>>
       ELSE IF ir[stmt].width # 1
       THEN ret' = Aborted /\ UNCHANGED <<results, visited>>
       ELSE LET diff == run(stmt, ValueDiffLoopIndex(0, loop, index_id))
            IN /\ results' = diff.results
               /\ visited' = diff.visited
               /\ IF diff.aborted THEN ret' = Aborted
                  ELSE ret' \in Outcomes(diff.ub, diff.results[stmt])
    /\ UNCHANGED ir

value_diff_ptr_index(val1, val2) ==
    /\ call = NoCall
    /\ call' = [fn |-> "value_diff_ptr_index", val1 |-> val1, val2 |-> val2]
    /\ IF val1 = val2 THEN ret' = Returned(make_certain(0))
       ELSE LET v1 == Find_run(val1)
                v2 == Find_run(val2)
            IN IF v1.aborted \/ v2.aborted THEN ret' = Aborted
               ELSE IF ~v1.result.found \/ ~v2.result.found
                       \/ v1.result.base # v2.result.base
               THEN ret' \in Outcomes(v1.ub \/ v2.ub, make_uncertain)
               ELSE ret' \in Outcomes(v1.ub \/ v2.ub
                                        \/ SubOverflows(v1.result.offset, v2.result.offset),
                                      make_certain(Sub32(v1.result.offset, v2.result.offset)))
    /\ UNCHANGED <<ir, results, visited>>

(***************************************************************************)
(* The IR is built before the pass runs and is not changed by it.          *)
(***************************************************************************)
Build(nd) ==
    /\ call = NoCall
    /\ Len(ir) < MaxNodes
    /\ ir' = Append(ir, nd)
    /\ UNCHANGED <<call, ret, results, visited>>

\* an address computation: earlier statement op constant
BuildOffset(lhs, c, op) ==
    /\ call = NoCall
    /\ Len(ir) > 0 /\ IsChain(ir) /\ Len(ir) \div 2 < MaxChain
    /\ lhs \in Ids(ir) /\ ir[lhs].width = 1
    /\ ir' = ir \o <<I32(c), BinaryOpStmt(op, lhs, Len(ir) + 1, 1)>>
    /\ UNCHANGED <<call, ret, results, visited>>

Init ==
    /\ ir = <<>>
    /\ call = NoCall
    /\ ret = NoRet
    /\ results = <<>>
    /\ visited = <<>>

\* The pass is queried on the statement built last.
Next ==
    \/ \E nd \in NextStmts(ir) : Build(nd)
    \/ \E lhs \in Ids(ir), c \in ChainVals, op \in {"add", "sub"} : BuildOffset(lhs, c, op)
    \/ \E loop \in LoopArgs : Len(ir) > 0 /\ value_diff_loop_index(Len(ir), loop, 0)

Spec == Init /\ [][Next]_vars

\* The comparison is queried on the statement built last and any statement.
NextPtr ==
    \/ \E nd \in PtrNextStmts(ir) : Build(nd)
    \/ \E lhs \in Ids(ir), c \in PtrVals, op \in {"add", "sub", "mul"} :
          BuildOffset(lhs, c, op)
    \/ \E v \in Ids(ir) : value_diff_ptr_index(v, Len(ir))
    \/ \E v \in Ids(ir) : value_diff_ptr_index(Len(ir), v)

SpecPtr == Init /\ [][NextPtr]_vars

(***************************************************************************)
(* Run-time values, for the soundness statements.  A statement the pass    *)
(* cannot see through (a load, a non-i32 constant, an operator other than  *)
(* add/sub, an induction variable, the input of a range assumption) has    *)
(* the value env gives it; add and sub are 32-bit.                         *)
(***************************************************************************)
EnvVals == (-1..(MaxBound + 1)) \cup {INT_MAX - 1, INT_MAX}

XVals == 0..MaxBound

IsTracked(id, loop, index_id) ==
    ir[id].kind = "LoopIndexStmt" /\ ir[id].loop = loop /\ ir[id].index = index_id

RECURSIVE Eval(_, _, _, _, _, _)
Eval(id, lane, loop, index_id, x, env) ==
    LET stmt == ir[id] IN
    CASE stmt.kind = "ConstStmt" /\ stmt.val[lane + 1].dt = "i32" -> stmt.val[lane + 1].val_i32
      [] IsTracked(id, loop, index_id) -> x
      [] stmt.kind = "BinaryOpStmt" /\ stmt.op_type = "add" ->
            Add32(Eval(stmt.lhs, lane, loop, index_id, x, env),
                  Eval(stmt.rhs, lane, loop, index_id, x, env))
      [] stmt.kind = "BinaryOpStmt" /\ stmt.op_type = "sub" ->
            Sub32(Eval(stmt.lhs, lane, loop, index_id, x, env),
                  Eval(stmt.rhs, lane, loop, index_id, x, env))
      [] stmt.kind = "ElementShuffleStmt" ->
            Eval(stmt.elements[lane + 1].stmt, stmt.elements[lane + 1].index,
                 loop, index_id, x, env)
      [] OTHER -> env[id]

\* The statements the pass visits below id: the operands of add and sub, the
\* base of a range assumption, the selected source of a lane selection.
Operands(id, lane) ==
    LET stmt == ir[id] IN
    CASE stmt.kind = "BinaryOpStmt" /\ stmt.op_type \in {"add", "sub"} ->
            <<[stmt |-> stmt.lhs, lane |-> lane], [stmt |-> stmt.rhs, lane |-> lane]>>
      [] stmt.kind = "RangeAssumptionStmt" -> <<[stmt |-> stmt.base, lane |-> lane]>>
      [] stmt.kind = "ElementShuffleStmt" /\ stmt.width = 1 ->
            <<[stmt |-> stmt.elements[lane + 1].stmt,
               lane |-> stmt.elements[lane + 1].index]>>
      [] OTHER -> <<>>

RECURSIVE Below(_, _)
Below(id, lane) ==
    {id} \cup UNION {Below(Operands(id, lane)[k].stmt, Operands(id, lane)[k].lane) :
                        k \in 1..Len(Operands(id, lane))}

\* env respects the loop bounds and the range assumptions of the statements
\* below root.
Satisfies(root, loop, index_id, x, env) ==
    \A id \in Below(root, 0) :
        /\ (/\ ir[id].kind = "LoopIndexStmt" /\ ~IsTracked(id, loop, index_id)
            /\ ir[id].loop.kind = "RangeForStmt"
            /\ ir[id].loop.begin.kind = "ConstStmt" /\ ir[id].loop.end.kind = "ConstStmt")
           => /\ ir[id].loop.begin.val[1].val_i32 <= env[id]
              /\ env[id] < ir[id].loop.end.val[1].val_i32
        /\ ir[id].kind = "RangeAssumptionStmt"
           => \E d \in ir[id].low..(ir[id].high - 1) :
                 /\ ~AddOverflows(Eval(ir[id].base, 0, loop, index_id, x, env), d)
                 /\ env[id] = Eval(ir[id].base, 0, loop, index_id, x, env) + d

LoopReturned == call.fn = "value_diff_loop_index" /\ ret.status = "returned"

NoShuffleBelow(root) == \A id \in Below(root, 0) : ir[id].kind # "ElementShuffleStmt"

\* The fact holds of every iteration: low <= v - coeff * x < high.
FactHolds(fact, root, loop, index_id) ==
    \A x \in XVals : \A env \in [Below(root, 0) -> EnvVals] :
        Satisfies(root, loop, index_id, x, env)
        => LET d == Sub32(Eval(root, 0, loop, index_id, x, env), fact.coeff * x)
           IN fact.low <= d /\ d < fact.high

\* C1: a related fact returned by value_diff_loop_index for a single-lane
\* expression holds of every loop iteration: low <= v - coeff * x < high.
C1_Sound ==
    (LoopReturned /\ ret.value.related /\ NoShuffleBelow(call.stmt))
    => FactHolds(ret.value, call.stmt, call.loop, call.index_id)

\* Whether a signed overflow happened in the run of the visitor on root.
RunOverflowed(root, loop, index_id) == run(root, ValueDiffLoopIndex(0, loop, index_id)).ub

\* The same statement for the runs in which no signed overflow happened.
SoundWithoutOverflow ==
    (/\ LoopReturned /\ ret.value.related /\ NoShuffleBelow(call.stmt)
     /\ ~RunOverflowed(call.stmt, call.loop, call.index_id))
    => FactHolds(ret.value, call.stmt, call.loop, call.index_id)

\* The visitor ran: the call passed the entry assertions and was not answered
\* by the entry's own test for the tracked induction variable.
VisitorRan == LoopReturned /\ call.stmt \in DOMAIN results

Unrelated == [related |-> FALSE, coeff |-> 0, low |-> 0, high |-> 0]

\* C6: no partial propagation: a binary node whose operator is not add/sub, or
\* one of whose operand facts is unrelated, has the fact related = false,
\* coeff = 0, low = high = 0; loads, statements of unhandled kinds and non-i32
\* constants are unrelated.
C6_NoPartialPropagation ==
    VisitorRan =>
        \A id \in DOMAIN results :
            /\ (/\ ir[id].kind = "BinaryOpStmt"
                /\ \/ ir[id].op_type \notin {"add", "sub"}
                   \/ ~results[ir[id].lhs].related
                   \/ ~results[ir[id].rhs].related)
               => results[id] = Unrelated
            /\ ir[id].kind \in {"GlobalLoadStmt", "ArgLoadStmt"} => results[id] = Unrelated

\* unrelated_load + idx, idx the tracked induction variable, was analysed.
C6_Witness ==
    /\ VisitorRan
    /\ ir[call.stmt].kind = "BinaryOpStmt" /\ ir[call.stmt].op_type = "add"
    /\ ir[ir[call.stmt].lhs].kind = "GlobalLoadStmt"
    /\ IsTracked(ir[call.stmt].rhs, call.loop, call.index_id)
    /\ results[ir[call.stmt].rhs].related
    /\ ~ret.value.related

IsI32(id, v) == ir[id] = I32(v)

\* The queried statement is (idx + 3) - 1, idx the tracked induction variable.
IdxPlus3Minus1 ==
    LET r == ir[call.stmt] IN
    /\ call.fn = "value_diff_loop_index"
    /\ r.kind = "BinaryOpStmt" /\ r.op_type = "sub" /\ IsI32(r.rhs, 1)
    /\ ir[r.lhs].kind = "BinaryOpStmt" /\ ir[r.lhs].op_type = "add"
    /\ IsTracked(ir[r.lhs].lhs, call.loop, call.index_id)
    /\ IsI32(ir[r.lhs].rhs, 3)

\* C7: for (idx + 3) - 1 value_diff_loop_index returns related = true,
\* coeff = 1 and the constant term folded to the half-open singleton [2, 3).
C7_IdxPlus3Minus1 ==
    (IdxPlus3Minus1 /\ LoopEntryAsserts(call.loop))
    => ret = Returned([related |-> TRUE, coeff |-> 1, low |-> 2, high |-> 3])

C7_Witness == IdxPlus3Minus1 /\ LoopReturned /\ ret.value.related

\* The query is single-lane: the queried statement has width 1 and so has
\* every lane selection the visitor meets.
SingleLaneQuery ==
    /\ ir[call.stmt].width = 1
    /\ \A id \in Below(call.stmt, 0) : ir[id].kind = "ElementShuffleStmt" => ir[id].width = 1

IsStructForDispatch(loop) == loop.kind = "OffloadedStmt" /\ loop.task_type = "struct_for"

C8_LowLeHigh ==
    LoopReturned =>
        /\ ret.value.related => ret.value.low <= ret.value.high
        /\ \A id \in DOMAIN results : results[id].related => results[id].low <= results[id].high

\* C9 as stated: coeff is 0 or 1 in every fact.
C9_CoeffZeroOrOne ==
    LoopReturned =>
        /\ ret.value.coeff \in {0, 1}
        /\ \A id \in DOMAIN results : results[id].coeff \in {0, 1}

\* The occurrences of the tracked induction variable below id, those under the
\* right operand of a sub counted negative.
RECURSIVE Occurrences(_, _)
Occurrences(id, lane) ==
    LET stmt == ir[id] IN
    CASE IsTracked(id, call.loop, call.index_id) -> 1
      [] stmt.kind = "BinaryOpStmt" /\ stmt.op_type = "add" ->
            Occurrences(stmt.lhs, lane) + Occurrences(stmt.rhs, lane)
      [] stmt.kind = "BinaryOpStmt" /\ stmt.op_type = "sub" ->
            Occurrences(stmt.lhs, lane) - Occurrences(stmt.rhs, lane)
      [] stmt.kind = "RangeAssumptionStmt" -> Occurrences(stmt.base, lane)
      [] stmt.kind = "ElementShuffleStmt" /\ stmt.width = 1 ->
            Occurrences(stmt.elements[lane + 1].stmt, stmt.elements[lane + 1].index)
      [] OTHER -> 0

\* C9 amended: coeff is 0 in an unrelated fact and, in a related fact, the
\* number of occurrences of the tracked induction variable added minus the
\* number subtracted: 0 for a constant, 1 for a direct reference, 2 for
\* idx + idx, -1 for 1 - idx.
C9_CoeffCountsOccurrences ==
    LoopReturned =>
        /\ ret.value.coeff = IF ret.value.related THEN Occurrences(call.stmt, 0) ELSE 0
        /\ \A id \in DOMAIN results :
              results[id].coeff = IF results[id].related THEN Occurrences(id, 0) ELSE 0

C9_Witness == LoopReturned /\ ret.value.related /\ ret.value.coeff = 2

Count(seq, e) == Cardinality({k \in 1..Len(seq) : seq[k] = e})

RECURSIVE Paths(_, _, _)
Sum(f, n) == LET RECURSIVE S(_)
                 S(k) == IF k = 0 THEN 0 ELSE f[k] + S(k - 1)
             IN S(n)

Paths(n, lane, id) ==
    LET ops == Operands(n, lane) IN
    (IF n = id THEN 1 ELSE 0)
    + Sum([k \in 1..Len(ops) |-> Paths(ops[k].stmt, ops[k].lane, id)], Len(ops))

PtrCalled == call.fn = "value_diff_ptr_index"

PtrReturned == PtrCalled /\ ret.status = "returned"

PtrEnvVals == {-1, 0, INT_MAX}

\* The statements whose run-time value env gives: those below a or b that are
\* neither add/sub nor an i32 constant.
Opaque(a, b) ==
    {id \in Below(a, 0) \cup Below(b, 0) :
        /\ ~(ir[id].kind = "BinaryOpStmt" /\ ir[id].op_type \in {"add", "sub"})
        /\ ~(ir[id].kind = "ConstStmt" /\ ir[id].val[1].dt = "i32")}

PtrEval(id, env) == Eval(id, 0, StructForStmt, 0, 0, env)

IsI32Const(id) == ir[id].kind = "ConstStmt" /\ ir[id].width = 1 /\ ir[id].val[1].dt = "i32"

\* id is "base +/- constant": an add or sub whose right operand is a
\* single-lane i32 constant.
IsBasePlusConst(id) ==
    /\ ir[id].kind = "BinaryOpStmt" /\ ir[id].op_type \in {"add", "sub"}
    /\ IsI32Const(ir[id].rhs)

\* C2: whenever value_diff_ptr_index returns Certain(d), the value of val1
\* minus the value of val2 is d (in 32-bit arithmetic) whatever the values of
\* the statements it does not look into; and it returns Certain only for the
\* same statement, two i32 constants, or two base +/- constant statements over
\* the same base statement.
C2_PtrSound ==
    (PtrReturned /\ ret.value.certain) =>
        /\ \A env \in [Opaque(call.val1, call.val2) -> PtrEnvVals] :
              Sub32(PtrEval(call.val1, env), PtrEval(call.val2, env)) = ret.value.diff_value
        /\ \/ call.val1 = call.val2
           \/ IsI32Const(call.val1) /\ IsI32Const(call.val2)
           \/ /\ IsBasePlusConst(call.val1) /\ IsBasePlusConst(call.val2)
              /\ ir[call.val1].lhs = ir[call.val2].lhs

\* Certain is returned for base - 4 against base + 12 and against base + INT_MIN,
\* the latter with a wrapped difference.
C2_Witness ==
    /\ PtrReturned /\ ret.value.certain /\ call.val1 # call.val2
    /\ IsBasePlusConst(call.val1) /\ ir[call.val1].op_type = "sub"
    /\ IsBasePlusConst(call.val2)
    /\ ret.value.diff_value \in {-16, INT_MAX - 3}

\* val2 is the add node val1 + const(k).
IsV1PlusConst ==
    /\ PtrCalled
    /\ ir[call.val2].kind = "BinaryOpStmt" /\ ir[call.val2].op_type = "add"
    /\ ir[call.val2].lhs = call.val1
    /\ IsI32Const(ir[call.val2].rhs)

\* C3 as stated: value_diff_ptr_index(v1, v1 + const(k)) returns Certain(-k).
C3_CertainMinusK ==
    IsV1PlusConst
    => ret = Returned(make_certain(Sub32(0, ir[ir[call.val2].rhs].val[1].val_i32)))

\* C3 amended: value_diff_ptr_index(v1, v1 + const(k)) never returns Certain:
\* v1 is the base of v1 + const(k) but never the base of its own
\* decomposition, so whenever the call returns, it returns Uncertain.
C3_Uncertain ==
    IsV1PlusConst
    => /\ ret.status # "aborted"
       /\ ret.status = "returned" => ret.value = make_uncertain

C3_Witness == IsV1PlusConst /\ ret = Returned(make_uncertain)

BothBinary ==
    /\ PtrCalled
    /\ ir[call.val1].kind = "BinaryOpStmt" /\ ir[call.val2].kind = "BinaryOpStmt"

\* The offset of a base +/- constant statement: k for add, -k for sub.
OffsetOf(id) ==
    IF ir[id].op_type = "add" THEN ir[ir[id].rhs].val[1].val_i32
    ELSE Sub32(0, ir[ir[id].rhs].val[1].val_i32)

SameBaseOffsets ==
    /\ IsBasePlusConst(call.val1) /\ IsBasePlusConst(call.val2)
    /\ ir[call.val1].lhs = ir[call.val2].lhs

\* C4 as stated: for b op1 const(k1) against b op2 const(k2), op1, op2 in
\* {add, sub}, the result is Certain(o1 - o2); with different left operands,
\* a right operand that is no i32 constant or another operator it is Uncertain.
C4_CertainOrUncertain ==
    BothBinary =>
        IF SameBaseOffsets
        THEN ret = Returned(make_certain(Sub32(OffsetOf(call.val1), OffsetOf(call.val2))))
        ELSE ret = Returned(make_uncertain)

\* A right operand that is a constant of several lanes fails the width
\* assertion of the constant's visit.
WideConstOperand(id) == ir[ir[id].rhs].kind = "ConstStmt" /\ ir[ir[id].rhs].width # 1

\* C4 amended: the same statement on both sides gives Certain(0) whatever its
\* operator and operands.  For two different statements: same left operand,
\* single-lane i32 constants on the right and add/sub give Certain(o1 - o2)
\* in 32-bit wrapping arithmetic (base + 4 against base + 12 gives
\* Certain(-8)), anything else gives Uncertain; a right operand that is a
\* constant of several lanes aborts on the width assertion, and a build that
\* traps on signed overflow returns nothing.
C4_CertainOrUncertainUnlessSame ==
    BothBinary =>
        /\ call.val1 = call.val2 => ret = Returned(make_certain(0))
        /\ call.val1 # call.val2 =>
              /\ ret = Aborted <=> (WideConstOperand(call.val1) \/ WideConstOperand(call.val2))
              /\ ret.status = "returned" =>
                    IF SameBaseOffsets
                    THEN ret.value = make_certain(Sub32(OffsetOf(call.val1), OffsetOf(call.val2)))
                    ELSE ret.value = make_uncertain

\* base + 4 against base + 12 gives Certain(-8).
C4_Witness ==
    /\ BothBinary /\ SameBaseOffsets /\ call.val1 # call.val2
    /\ ir[call.val1].op_type = "add" /\ IsI32(ir[call.val1].rhs, 4)
    /\ ir[call.val2].op_type = "add" /\ IsI32(ir[call.val2].rhs, 12)
    /\ ret = Returned(make_certain(-8))

====
